---- MODULE Spec2Model ----
(***************************************************************************)
(* Stock-Data-Scraper: the collection loop of StockScraper                 *)
(* (stock_scraper/scraper.py) and the cleaning pipeline of DataProcessor   *)
(* (stock_scraper/data_processor.py), chained as                           *)
(* SchedulerManager.collect_and_process_data and main.py chain them (Spec); *)
(* the SchedulerManager with its loop thread, the job registry and the     *)
(* scrapers and WebDrivers of the application and of the job runs          *)
(* (SchedSpec).                                                            *)
(*                                                                         *)
(* Values.  A cell of a record or of a DataFrame is Null (None / NaN /     *)
(* <NA>), a number, or a text.  Numbers are exact rationals.  A text is a  *)
(* sequence of tokens; the tokens of a numeric text are its characters.    *)
(***************************************************************************)
EXTENDS Integers, Sequences, FiniteSets, TLC

VARIABLES
    pc,              \* position of the running operation
    symbols,         \* the argument of scrape_multiple_stocks
    i,               \* 1-based index of the for loop of scrape_multiple_stocks
    all_stock_data,  \* the list all_stock_data of scrape_multiple_stocks
    events,          \* page requests issued and sleeps taken, in order
    returned,        \* what scrape_stock_data gave back, one entry per call
    remote,          \* per call: how the remote side answered
    raw_data,        \* return value of scrape_multiple_stocks
    input_file,      \* the file process_data is asked to read
    df,              \* the DataFrame loaded by process_data
    df_clean,        \* result of clean_data
    df_std,          \* result of standardize_formats
    df_filled,       \* result of handle_missing_values
    result,          \* return value of process_data
    again,           \* the stages of process_data applied to its return value
    steps,           \* the calls made by the running operation, in order
    config,          \* SchedulerManager.config as the job run has read it
    is_running,      \* SchedulerManager.is_running
    scheduler_thread, \* SchedulerManager.scheduler_thread: 0 (None) or a thread
    threads,         \* the loop threads created, each with its position
    mpc,             \* position of the main thread
    schedule_jobs,   \* number of jobs in the registry of the schedule library
    jobs,            \* SchedulerManager.jobs
    scrapers,        \* the StockScraper objects created
    drivers          \* the WebDriver objects created: "open" or "quit"

\* The state of the scheduler, of its threads and of the scrapers they use.
sched == <<is_running, scheduler_thread, threads, mpc, schedule_jobs, jobs,
           scrapers, drivers>>

\* The state of a collection and of a processing run.
pipeline == <<pc, symbols, i, all_stock_data, events, returned, remote, raw_data,
          input_file, df, df_clean, df_std, df_filled, result, again, steps,
          config>>

vars == <<pipeline, sched>>

-----------------------------------------------------------------------------
(* Bounds of the model *)

MaxSymbols == 2
MaxRows == 4
MaxThreads == 2     \* loop threads created
MaxJobs == 2        \* schedule_* calls between two clear_jobs
MaxScrapers == 3    \* StockScraper objects created

(* Program constants *)

RETRY_ATTEMPTS == 3
DelayMin == 2
DelayMax == 5
MarketHoursJobs == 15   \* five days at 09:30, at 12:00 and at 15:30

-----------------------------------------------------------------------------
(* Cells *)

\* A cell: Null (None, NaN, <NA>), the exact rational n/d in lowest terms
\* (d > 0), an infinity of sign n, or a text of tokens s.
Null == [t |-> "null", n |-> 0, d |-> 1, s |-> <<>>]
Inf(sign) == [t |-> "inf", n |-> sign, d |-> 1, s |-> <<>>]
Str(tokens) == [t |-> "str", n |-> 0, d |-> 1, s |-> tokens]

Abs(x) == IF x < 0 THEN 0 - x ELSE x

RECURSIVE GCD(_, _)
GCD(a, b) == IF b = 0 THEN a ELSE GCD(b, a % b)

\* n/d (d # 0) as a cell in lowest terms.
Rat(n, d) ==
    LET g == GCD(Abs(n), Abs(d))
        sgn == IF d < 0 THEN 0 - 1 ELSE 1
    IN  [t |-> "num", n |-> sgn * (n \div g), d |-> sgn * (d \div g), s |-> <<>>]

Num(k) == Rat(k, 1)

isna(c) == c.t = "null"
IsNumber(c) == c.t = "num"
IsText(c) == c.t = "str"

Less(a, b) ==
    IF a.t = "inf" THEN a.n < 0 /\ ~(b.t = "inf" /\ b.n < 0)
    ELSE IF b.t = "inf" THEN b.n > 0
    ELSE a.n * b.d < b.n * a.d

None == [none |-> TRUE]
Raise == [exc |-> TRUE, val |-> <<>>]
Return(v) == [exc |-> FALSE, val |-> v]

Digits == <<"0", "1", "2", "3", "4", "5", "6", "7", "8", "9">>
IsDigit(ch) == \E k \in 1..10 : Digits[k] = ch
DigitVal(ch) == (CHOOSE k \in 1..10 : Digits[k] = ch) - 1

RECURSIVE IntVal(_)
IntVal(ds) == IF ds = <<>> THEN 0
              ELSE IntVal(SubSeq(ds, 1, Len(ds) - 1)) * 10 + DigitVal(ds[Len(ds)])

RECURSIVE Pow10(_)
Pow10(k) == IF k = 0 THEN 1 ELSE 10 * Pow10(k - 1)

ValueError == [error |-> "ValueError", val |-> Null]
Parsed(c) == [error |-> "", val |-> c]

\* Python's float() on a text: an optional leading sign, then the word inf in
\* either case, or digits with at most one point and at least one digit;
\* anything else is a ValueError.
UnsignedFloat(cs) ==
    LET points == {k \in 1..Len(cs) : cs[k] = "."}
    IN  IF cs \in {<<"inf">>, <<"INF">>} THEN Parsed(Inf(1))
        ELSE IF \E k \in 1..Len(cs) : ~IsDigit(cs[k]) /\ cs[k] # "." THEN ValueError
        ELSE IF Cardinality(points) > 1 THEN ValueError
        ELSE IF Len(cs) - Cardinality(points) = 0 THEN ValueError
        ELSE IF points = {} THEN Parsed(Num(IntVal(cs)))
        ELSE LET p == CHOOSE k \in points : TRUE
                 whole == SubSeq(cs, 1, p - 1)
                 frac == SubSeq(cs, p + 1, Len(cs))
             IN  Parsed(Rat(IntVal(whole) * Pow10(Len(frac)) + IntVal(frac),
                            Pow10(Len(frac))))

Signed(u, sign) ==
    IF u.error # "" THEN ValueError
    ELSE IF sign = "+" THEN u
    ELSE IF u.val.t = "inf" THEN Parsed(Inf(0 - u.val.n))
    ELSE Parsed(Rat(0 - u.val.n, u.val.d))

OrNone(f) == IF f.error # "" THEN Null ELSE f.val

float(cs) ==
    IF cs # <<>> /\ cs[1] \in {"-", "+"}
    THEN Signed(UnsignedFloat(Tail(cs)), cs[1])
    ELSE UnsignedFloat(cs)

\* float(cleaned) if cleaned else None, with except: return None
FloatOrNone(cleaned) == IF cleaned = <<>> THEN Null ELSE OrNone(float(cleaned))

\* re.sub(r'[^0-9.-]', '', text)
KeepNumeric(cs) == SelectSeq(cs, LAMBDA ch : IsDigit(ch) \/ ch = "." \/ ch = "-")

-----------------------------------------------------------------------------
(* StockScraper *)

clean_price(price_str) ==
    IF price_str = <<>> THEN Null ELSE FloatOrNone(KeepNumeric(price_str))

clean_percentage(percent_str) ==
    IF percent_str = <<>> THEN Null ELSE FloatOrNone(KeepNumeric(percent_str))

\* A function update that adds the key when it is missing (dict assignment).
Put(d, k, v) == [x \in DOMAIN d \cup {k} |-> IF x = k THEN v ELSE d[x]]
Update(d, e) == [x \in DOMAIN d \cup DOMAIN e |-> IF x \in DOMAIN e THEN e[x] ELSE d[x]]
EmptyDict == [x \in {} |-> Null]

\* A table row of the page: the keywords its label contains, and its value text.
SummaryRow(data, key, value) ==
    IF "Previous Close" \in key THEN Put(data, "previous_close", clean_price(value))
    ELSE IF "Open" \in key THEN Put(data, "open", clean_price(value))
    ELSE IF "Volume" \in key THEN Put(data, "volume", Str(value))
    ELSE IF "Market Cap" \in key THEN Put(data, "market_cap", Str(value))
    ELSE IF "P/E Ratio" \in key THEN Put(data, "pe_ratio", clean_price(value))
    ELSE data

RECURSIVE SummaryFrom(_, _)
SummaryFrom(rows, data) ==
    IF rows = <<>> THEN data
    ELSE SummaryFrom(Tail(rows), SummaryRow(data, rows[1].key, rows[1].value))

extract_yahoo_summary_data(soup) == SummaryFrom(soup.rows, EmptyDict)

Timestamp == Str(<<"2024-01-01T00:00:00">>)
NoElement == [present |-> FALSE, text |-> <<>>]
Element(text) == [present |-> TRUE, text |-> text]

\* name_element.get_text().split('(')[0].strip(), on a text of word tokens
BeforeParen(text) ==
    LET opens == {k \in 1..Len(text) : text[k] = "("}
    IN  IF opens = {} THEN text
        ELSE SubSeq(text, 1, (CHOOSE k \in opens : \A m \in opens : k <= m) - 1)

\* Faulty variant: the field is written whether the element is there or not.
PutAlways(d, present, k, v) == Put(d, k, v)

PutIf(d, present, k, v) == IF present THEN Put(d, k, v) ELSE d

SymbolAndSource(symbol) ==
    [x \in {"symbol", "source"} |-> IF x = "symbol" THEN Str(<<symbol>>) ELSE Str(<<"yahoo">>)]

\* The record scrape_yahoo_finance builds from a parsed page.
YahooData(symbol, soup) ==
    Put(PutIf(Update(PutIf(PutIf(PutIf(SymbolAndSource(symbol),
                                       soup.price.present, "current_price",
                                       clean_price(soup.price.text)),
                                 soup.change.present, "change",
                                 clean_price(soup.change.text)),
                           soup.change_percent.present, "change_percent",
                           clean_percentage(soup.change_percent.text)),
                     extract_yahoo_summary_data(soup)),
              soup.name.present, "company_name", Str(BeforeParen(soup.name.text))),
        "timestamp", Timestamp)

\* The try block of scrape_yahoo_finance: session.get or raise_for_status
\* raises, parsing raises, or the record is built.
YahooBody(symbol, reply) ==
    IF reply.transient > 0 THEN Raise
    ELSE IF reply.kind = "parse_error" THEN Raise
    ELSE Return(YahooData(symbol, reply.page))

YahooError(symbol) ==
    [x \in {"symbol", "source", "error"} |->
        IF x = "symbol" THEN Str(<<symbol>>)
        ELSE IF x = "source" THEN Str(<<"yahoo">>)
        ELSE Str(<<"exception">>)]

\* except Exception as e: return {'symbol': symbol, ..., 'error': str(e)}
YahooCatch(r, symbol) == IF r.exc THEN Return(YahooError(symbol)) ELSE r

scrape_yahoo_finance(symbol, reply) == YahooCatch(YahooBody(symbol, reply), symbol)

Fallback(symbol) ==
    [x \in {"symbol", "current_price", "change", "change_percent", "timestamp", "error"} |->
        IF x = "symbol" THEN Str(<<symbol>>)
        ELSE IF x = "timestamp" THEN Timestamp
        ELSE IF x = "error" THEN Str(<<"Could not fetch data">>)
        ELSE Null]

\* return data when it carries no error; the fallback record after an error
\* record or an exception.
DataOrFallback(r, symbol) ==
    IF ~r.exc /\ "error" \notin DOMAIN r.val THEN r ELSE Return(Fallback(symbol))

\* Faulty variant: the page is fetched and parsed with no handler around it.
Unguarded(symbol, reply) == YahooBody(symbol, reply)

scrape_stock_data(symbol, reply) ==
    DataOrFallback(scrape_yahoo_finance(symbol, reply), symbol)

\* The page requests scrape_yahoo_finance issues for one symbol: session.get
\* is called once, whatever its outcome.
Requests(symbol, reply) == <<[op |-> "get", symbol |-> symbol, d |-> 0]>>

\* pd.DataFrame(list of dicts): the columns are the union of the keys, a
\* missing key is a null cell.
DataFrame(records) ==
    LET cols == UNION {DOMAIN records[k] : k \in 1..Len(records)}
    IN  [cols |-> cols,
         rows |-> [k \in 1..Len(records) |->
                      [label |-> k - 1,
                       cells |-> [c \in cols |-> IF c \in DOMAIN records[k]
                                                 THEN records[k][c] ELSE Null]]]]

\* Faulty variants: every outcome is appended; successes are put in front.
AppendAlways(all, stock_data) == Append(all, stock_data)
PrependOutcome(all, stock_data) ==
    IF "error" \notin DOMAIN stock_data THEN <<stock_data>> \o all ELSE all

\* if 'error' not in stock_data: all_stock_data.append(stock_data)
append_outcome(all, stock_data) ==
    IF "error" \notin DOMAIN stock_data THEN Append(all, stock_data) ELSE all

\* Faulty variant: a sleep after every symbol, the last included.
PacingAfterEvery(idx, n, delay) == <<[op |-> "sleep", symbol |-> "", d |-> delay]>>

\* if i < len(symbols) - 1: time.sleep(random.uniform(2, 5))   (idx is 1-based)
pacing(idx, n, delay) ==
    IF idx < n THEN <<[op |-> "sleep", symbol |-> "", d |-> delay]>> ELSE <<>>

\* The values random.uniform(2, 5) is drawn from: the two ends of the range.
Delays == {DelayMin, DelayMax}

\* Faulty variant: the loop stops at the first failed symbol.
BreakOnFailure(idx, n, stock_data) ==
    IF "error" \in DOMAIN stock_data THEN n + 1 ELSE idx + 1

\* for i, symbol in enumerate(symbols): the loop goes on to the next symbol
\* whatever the outcome of this one.
loop_next(idx, n, stock_data) == idx + 1

\* Faulty variant: a frame is built even from no record.
AlwaysDataFrame(all) == DataFrame(all)

\* if all_stock_data: return pd.DataFrame(all_stock_data) else: return None
batch_result(all) == IF all # <<>> THEN DataFrame(all) ELSE None

-----------------------------------------------------------------------------
(* The remote side *)

SymbolSet == {"AAPL", "MSFT"}

PageFull ==
    [price |-> Element(<<"$", "1", "0">>),
     change |-> Element(<<"-", "1">>),
     change_percent |-> Element(<<"(", "-", "1", "0", "%", ")">>),
     rows |-> << [key |-> {"Previous Close"}, value |-> <<"1", "1">>],
                 [key |-> {"Open"}, value |-> <<"1", "0", ".", "5">>],
                 [key |-> {"Volume"}, value |-> <<"1">>],
                 [key |-> {"Volume"}, value |-> <<"2">>],
                 [key |-> {"Market Cap"}, value |-> <<"2", ".", "5", "T">>] >>,
     name |-> Element(<<"Apple", "Inc.", "(", "AAPL", ")">>)]

PageBare ==
    [price |-> NoElement,
     change |-> NoElement,
     change_percent |-> NoElement,
     rows |-> << [key |-> {"Volume"}, value |-> <<"1">>] >>,
     name |-> NoElement]

PageEmpty ==
    [price |-> NoElement,
     change |-> NoElement,
     change_percent |-> NoElement,
     rows |-> <<>>,
     name |-> NoElement]

Pages == {PageFull, PageBare, PageEmpty}

\* How the remote side answers the requests for one symbol: it fails the first
\* `transient` requests, and then serves a page that parses or one that does not.
Replies ==
    [transient : {1}, kind : {"page"}, page : {PageBare}]
    \cup [transient : {0}, kind : {"parse_error"}, page : {PageBare}]
    \cup [transient : {0}, kind : {"page"}, page : Pages]

RECURSIVE SeqsUpTo(_, _)
SeqsUpTo(S, n) ==
    IF n = 0 THEN {<<>>}
    ELSE LET shorter == SeqsUpTo(S, n - 1)
         IN  shorter \cup {Append(q, x) : q \in shorter, x \in S}

-----------------------------------------------------------------------------
(* CSV files: DataFrame.to_csv(index=False) and pd.read_csv *)

RECURSIVE IntDigits(_)
IntDigits(n) == IF n < 10 THEN <<Digits[n + 1]>>
                ELSE Append(IntDigits(n \div 10), Digits[(n % 10) + 1])

RECURSIVE PadLeft(_, _)
PadLeft(ds, width) == IF Len(ds) >= width THEN ds ELSE PadLeft(<<"0">> \o ds, width)

\* The number of decimal places of a number that has a finite decimal form.
Places(c) == CHOOSE k \in 0..6 : /\ Pow10(k) % c.d = 0
                                 /\ \A m \in 0..(k - 1) : Pow10(m) % c.d # 0

\* repr of a Python float: sign, whole part, point, at least one decimal.
FloatRepr(c) ==
    LET k == Places(c)
        scaled == (Abs(c.n) * Pow10(k)) \div c.d
        whole == IntDigits(scaled \div Pow10(k))
        frac == IF k = 0 THEN <<"0">> ELSE PadLeft(IntDigits(scaled % Pow10(k)), k)
    IN  (IF c.n < 0 THEN <<"-">> ELSE <<>>) \o whole \o <<".">> \o frac

\* str of a cell as to_csv writes it: a null is the empty field.
CsvField(c) == IF isna(c) THEN <<>>
               ELSE IF IsNumber(c) THEN FloatRepr(c)
               ELSE IF c.t = "inf" THEN (IF c.n < 0 THEN <<"-", "inf">> ELSE <<"inf">>)
               ELSE c.s

to_csv(frame) ==
    [exists |-> TRUE,
     cols |-> frame.cols,
     rows |-> [k \in 1..Len(frame.rows) |->
                  [c \in frame.cols |-> CsvField(frame.rows[k].cells[c])]]]

\* The fields read_csv takes for missing by default.
NaTexts == {<<>>, <<"N/A">>, <<"NA">>, <<"n/a">>, <<"NaN">>, <<"nan">>,
            <<"NULL">>, <<"null">>, <<"#N/A">>, <<"<NA>">>}

\* read_csv infers one type per column: numbers when every field that is not
\* missing parses as a number, texts otherwise.
NumericColumn(file, c) ==
    \A k \in 1..Len(file.rows) :
        file.rows[k][c] \in NaTexts \/ float(file.rows[k][c]).error = ""

ReadField(file, c, text) ==
    IF text \in NaTexts THEN Null
    ELSE IF NumericColumn(file, c) THEN float(text).val
    ELSE Str(text)

\* FileNotFoundError for a missing file, EmptyDataError for one with no columns.
read_csv(file) ==
    IF ~file.exists \/ file.cols = {} THEN Raise
    ELSE Return([cols |-> file.cols,
                 rows |-> [k \in 1..Len(file.rows) |->
                              [label |-> k - 1,
                               cells |-> [c \in file.cols |->
                                             ReadField(file, c, file.rows[k][c])]]]])

-----------------------------------------------------------------------------
(* DataProcessor *)

numeric_columns == {"current_price", "change", "change_percent", "previous_close",
                    "open", "day_low", "day_high", "week_52_low", "week_52_high",
                    "pe_ratio", "eps"}

\* re.sub(r'[^\d.-]', '', value)
clean_numeric_value(value) ==
    IF isna(value) THEN Null
    ELSE IF ~IsText(value) THEN value
    ELSE FloatOrNone(KeepNumeric(value.s))

\* int() of a number: truncation toward zero.
Trunc(c) == IF c.n >= 0 THEN Num(c.n \div c.d) ELSE Num(0 - ((0 - c.n) \div c.d))

Upper(ch) == CASE ch = "k" -> "K" [] ch = "m" -> "M" [] ch = "b" -> "B"
               [] ch = "t" -> "T" [] ch = "x" -> "X" [] ch = "inf" -> "INF"
               [] OTHER -> ch

\* Faulty variant: a T suffix that multiplies as well.
MultipliersWithT == << [suffix |-> "K", multiplier |-> 1000],
                       [suffix |-> "M", multiplier |-> 1000000],
                       [suffix |-> "B", multiplier |-> 1000000000],
                       [suffix |-> "T", multiplier |-> 1000] >>

Multipliers == << [suffix |-> "K", multiplier |-> 1000],
                  [suffix |-> "M", multiplier |-> 1000000],
                  [suffix |-> "B", multiplier |-> 1000000000] >>

Without(cs, ch) == SelectSeq(cs, LAMBDA x : x # ch)
Has(cs, ch) == \E k \in 1..Len(cs) : cs[k] = ch

\* int(number * multiplier), None on ValueError; int() of an infinity raises
\* OverflowError, which is not caught.
IntTimes(f, multiplier) ==
    IF f.error # "" THEN Return(Null)
    ELSE IF f.val.t = "inf" THEN Raise
    ELSE Return(Trunc(Rat(f.val.n * multiplier, f.val.d)))

RECURSIVE VolumeBySuffix(_, _, _)
VolumeBySuffix(value, value_upper, k) ==
    IF k > Len(Multipliers)
    THEN IntTimes(float(SelectSeq(value, LAMBDA ch : IsDigit(ch) \/ ch = ".")), 1)
    ELSE IF Has(value_upper, Multipliers[k].suffix)
    THEN IntTimes(float(Without(value_upper, Multipliers[k].suffix)),
                  Multipliers[k].multiplier)
    ELSE VolumeBySuffix(value, value_upper, k + 1)

\* int(inf) raises OverflowError, which the function does not catch.
clean_volume_value(value) ==
    IF isna(value) THEN Return(Null)
    ELSE IF IsNumber(value) THEN Return(Trunc(value))
    ELSE IF value.t = "inf" THEN Raise
    ELSE VolumeBySuffix(value.s, Without([k \in 1..Len(value.s) |-> Upper(value.s[k])], ","), 1)

\* value.strip() for a text, str(value) for a number
clean_market_cap_value(value) ==
    IF isna(value) THEN Null
    ELSE IF IsText(value) THEN value
    ELSE Str(CsvField(value))

\* re.sub(r'\([^)]*\)', '', name) on a text of word tokens
RECURSIVE DropParens(_, _)
DropParens(text, k) ==
    IF k > Len(text) THEN <<>>
    ELSE IF text[k] = "(" /\ \E m \in (k + 1)..Len(text) : text[m] = ")"
    THEN DropParens(text, (CHOOSE m \in (k + 1)..Len(text) :
                              /\ text[m] = ")"
                              /\ \A q \in (k + 1)..(m - 1) : text[q] # ")") + 1)
    ELSE <<text[k]>> \o DropParens(text, k + 1)

clean_company_name(value) ==
    IF isna(value) THEN Null
    ELSE IF IsText(value) THEN Str(DropParens(value.s, 1))
    ELSE Str(CsvField(value))

\* Faulty variant: the error filter is left out.
KeepAllRows(rows) == rows

\* df_clean[df_clean['error'].isna()]
DropErrorRows(rows) == SelectSeq(rows, LAMBDA r : isna(r.cells["error"]))

CleanCell(c, value) ==
    IF c \in numeric_columns THEN Return(clean_numeric_value(value))
    ELSE IF c = "volume" THEN clean_volume_value(value)
    ELSE IF c = "market_cap" THEN Return(clean_market_cap_value(value))
    ELSE IF c = "company_name" THEN Return(clean_company_name(value))
    ELSE Return(value)

\* The frame of the cleaned cells, or the exception one of the cleaning
\* functions raised inside apply.
CleanedFrame(cols, kept, cleaned) ==
    IF \E k \in 1..Len(kept), c \in cols : cleaned[k][c].exc THEN Raise
    ELSE Return([cols |-> cols,
                 rows |-> [k \in 1..Len(kept) |->
                              [label |-> kept[k].label,
                               cells |-> [c \in cols |-> cleaned[k][c].val]]]])

CleanRows(cols, kept) ==
    CleanedFrame(cols, kept,
                 [k \in 1..Len(kept) |-> [c \in cols |-> CleanCell(c, kept[k].cells[c])]])

clean_data(frame) ==
    CleanRows(frame.cols,
              IF "error" \in frame.cols THEN DropErrorRows(frame.rows) ELSE frame.rows)

\* pd.to_numeric(..., errors='coerce')
to_numeric(value) ==
    IF isna(value) THEN Null
    ELSE IF ~IsText(value) THEN value
    ELSE OrNone(float(value.s))

IsIntegral(c) == isna(c) \/ (IsNumber(c) /\ c.d = 1)

ProcessedAt == Str(<<"2024-01-01 00:00:01">>)

StdCell(c, value) ==
    IF c = "processed_at" THEN ProcessedAt
    ELSE IF c \in numeric_columns \/ c = "volume" THEN to_numeric(value)
    ELSE value

\* astype('Int64') raises when a value of the column is not a whole number.
StdFrame(cols, rows) ==
    IF "volume" \in cols /\ \E k \in 1..Len(rows) : ~IsIntegral(rows[k].cells["volume"])
    THEN Raise
    ELSE Return([cols |-> cols, rows |-> rows])

standardize_formats(frame) ==
    StdFrame(frame.cols \cup {"processed_at"},
             [k \in 1..Len(frame.rows) |->
                 [label |-> frame.rows[k].label,
                  cells |-> [c \in frame.cols \cup {"processed_at"} |->
                                StdCell(c, IF c \in frame.cols THEN frame.rows[k].cells[c]
                                           ELSE Null)]]])

Column(rows, c) == [k \in 1..Len(rows) |-> rows[k].cells[c]]

\* Faulty variant: Series.fillna(method='bfill')
RECURSIVE bfill(_)
bfill(col) ==
    IF col = <<>> THEN <<>>
    ELSE LET rest == bfill(Tail(col))
         IN  <<IF isna(col[1]) /\ rest # <<>> THEN rest[1] ELSE col[1]>> \o rest

\* Series.fillna(method='ffill')
RECURSIVE ffill(_)
ffill(col) ==
    IF col = <<>> THEN <<>>
    ELSE LET before == ffill(SubSeq(col, 1, Len(col) - 1))
             own == col[Len(col)]
         IN  Append(before, IF isna(own) /\ before # <<>> THEN before[Len(before)]
                            ELSE own)

\* Series.fillna(scalar)
fillna(col, value) == [k \in 1..Len(col) |-> IF isna(col[k]) THEN value ELSE col[k]]

RECURSIVE SortCells(_)
SortCells(S) ==
    IF S = {} THEN <<>>
    ELSE LET lo == CHOOSE x \in S : \A y \in S : ~Less(y[2], x[2]) \/ y = x
         IN  <<lo[2]>> \o SortCells(S \ {lo})

Mean2(a, b) ==
    IF a = b THEN a
    ELSE IF a.t = "inf" THEN (IF b.t = "inf" /\ b.n # a.n THEN Null ELSE a)
    ELSE IF b.t = "inf" THEN b
    ELSE Rat(a.n * b.d + b.n * a.d, 2 * a.d * b.d)

Present(col) == {<<k, col[k]>> : k \in {j \in 1..Len(col) : ~isna(col[j])}}

Middle(sorted) ==
    IF sorted = <<>> THEN Null
    ELSE IF Len(sorted) % 2 = 1 THEN sorted[(Len(sorted) + 1) \div 2]
    ELSE Mean2(sorted[Len(sorted) \div 2], sorted[(Len(sorted) \div 2) + 1])

\* Series.median(): nulls skipped; the middle value, or the mean of the two
\* middle values; null when every value is null.
median(col) == Middle(SortCells(Present(col)))

\* df.select_dtypes(include=[np.number]).columns after standardize_formats:
\* the declared numeric columns (float64), volume (Int64), and the float
\* columns price_momentum and daily_volatility of a frame that has them.
numeric_cols(frame) ==
    frame.cols \cap (numeric_columns \cup {"volume", "price_momentum", "daily_volatility"})

\* Faulty variant: the median is written whatever the type of the column.
FillAnyway(c, col, m) == Return(fillna(col, m))

\* fillna(median): a nullable-integer column refuses a fill value that is not
\* a whole number (TypeError); nothing is written when no value is missing.
FillWith(c, col, m) ==
    IF c = "volume" /\ ~IsIntegral(m) /\ \E k \in 1..Len(col) : isna(col[k])
    THEN Raise
    ELSE Return(fillna(col, m))

\* Faulty variant: every column is filled with its median.
MedianEverywhere(c, col) == FillWith(c, col, median(col))

FillColumn(c, col) ==
    IF c \in {"current_price", "previous_close", "open"} THEN Return(ffill(col))
    ELSE IF c \in {"change", "change_percent"} THEN Return(fillna(col, Num(0)))
    ELSE FillWith(c, col, median(col))

\* df['company_name'].fillna(df['symbol'])
FillNames(rows) ==
    [k \in 1..Len(rows) |-> IF isna(rows[k].cells["company_name"])
                            THEN rows[k].cells["symbol"]
                            ELSE rows[k].cells["company_name"]]

FilledFrame(frame, filled) ==
    IF \E c \in frame.cols : filled[c].exc THEN Raise
    ELSE Return([cols |-> frame.cols,
                 rows |-> [k \in 1..Len(frame.rows) |->
                              [label |-> frame.rows[k].label,
                               cells |-> [c \in frame.cols |-> filled[c].val[k]]]]])

handle_missing_values(frame) ==
    IF "company_name" \in frame.cols /\ "symbol" \notin frame.cols THEN Raise
    ELSE FilledFrame(frame,
            [c \in frame.cols |->
                IF c \in numeric_cols(frame) THEN FillColumn(c, Column(frame.rows, c))
                ELSE IF c = "company_name" THEN Return(FillNames(frame.rows))
                ELSE Return(Column(frame.rows, c))])

\* Float arithmetic on cells: a null operand gives null, x/0 is an infinity
\* and 0/0 is null (NaN); no exception is raised.
Sign(x) == IF x > 0 THEN 1 ELSE IF x < 0 THEN 0 - 1 ELSE 0

Sub(a, b) ==
    IF isna(a) \/ isna(b) THEN Null
    ELSE IF a.t = "inf" /\ b.t = "inf" THEN (IF a.n = b.n THEN Null ELSE a)
    ELSE IF a.t = "inf" THEN a
    ELSE IF b.t = "inf" THEN Inf(0 - b.n)
    ELSE Rat(a.n * b.d - b.n * a.d, a.d * b.d)

Div(a, b) ==
    IF isna(a) \/ isna(b) THEN Null
    ELSE IF a.t = "inf" /\ b.t = "inf" THEN Null
    ELSE IF a.t = "inf" THEN Inf(IF b.n < 0 THEN 0 - a.n ELSE a.n)
    ELSE IF b.t = "inf" THEN Num(0)
    ELSE IF b.n = 0 THEN (IF a.n = 0 THEN Null ELSE Inf(Sign(a.n)))
    ELSE Rat(a.n * b.d, a.d * b.n)

Times100(a) ==
    IF isna(a) \/ a.t = "inf" THEN a ELSE Rat(a.n * 100, a.d)

Greater(x, k) == IF x.t = "inf" THEN x.n > 0 ELSE x.n > k * x.d

\* Faulty variants: the last letter alone decides; the text is passed through.
SuffixTier(market_cap) ==
    IF isna(market_cap) \/ ~IsText(market_cap) THEN Str(<<"Unknown">>)
    ELSE IF market_cap.s = <<>> THEN Str(<<"Small Cap">>)
    ELSE IF market_cap.s[Len(market_cap.s)] = "T" THEN Str(<<"Mega Cap">>)
    ELSE IF market_cap.s[Len(market_cap.s)] = "B" THEN Str(<<"Large Cap">>)
    ELSE IF market_cap.s[Len(market_cap.s)] = "M" THEN Str(<<"Mid Cap">>)
    ELSE Str(<<"Small Cap">>)

EchoMarketCap(market_cap) == market_cap

categorize_market_cap(market_cap) ==
    IF isna(market_cap) THEN Str(<<"Unknown">>)
    ELSE IF IsText(market_cap)
    THEN IF Has(market_cap.s, "T") THEN Str(<<"Mega Cap">>)
         ELSE IF Has(market_cap.s, "B") THEN Str(<<"Large Cap">>)
         ELSE IF Has(market_cap.s, "M") THEN Str(<<"Mid Cap">>)
         ELSE Str(<<"Small Cap">>)
    ELSE Str(<<"Unknown">>)

\* Faulty variant: the thresholds are not strict.
AtLeast(x, k) == IF x.t = "inf" THEN x.n > 0 ELSE x.n >= k * x.d

NonStrictTiers(change_percent) ==
    IF isna(change_percent) THEN Str(<<"Unknown">>)
    ELSE IF AtLeast(change_percent, 5) THEN Str(<<"Strong Positive">>)
    ELSE IF AtLeast(change_percent, 2) THEN Str(<<"Positive">>)
    ELSE IF AtLeast(change_percent, 0 - 2) THEN Str(<<"Neutral">>)
    ELSE IF AtLeast(change_percent, 0 - 5) THEN Str(<<"Negative">>)
    ELSE Str(<<"Strong Negative">>)

categorize_performance(change_percent) ==
    IF isna(change_percent) THEN Str(<<"Unknown">>)
    ELSE IF Greater(change_percent, 5) THEN Str(<<"Strong Positive">>)
    ELSE IF Greater(change_percent, 2) THEN Str(<<"Positive">>)
    ELSE IF Greater(change_percent, 0 - 2) THEN Str(<<"Neutral">>)
    ELSE IF Greater(change_percent, 0 - 5) THEN Str(<<"Negative">>)
    ELSE Str(<<"Strong Negative">>)

DerivedCols(cols) ==
    cols
    \cup (IF {"current_price", "previous_close"} \subseteq cols THEN {"price_momentum"} ELSE {})
    \cup (IF {"day_high", "day_low"} \subseteq cols THEN {"daily_volatility"} ELSE {})
    \cup (IF "market_cap" \in cols THEN {"market_cap_category"} ELSE {})
    \cup (IF "change_percent" \in cols THEN {"performance_category"} ELSE {})

\* Faulty variant: a derived column the input already has is left as it is.
KeepExisting(cols, c, cells) ==
    IF c \in cols THEN cells[c]
    ELSE IF c = "price_momentum"
    THEN Times100(Div(Sub(cells["current_price"], cells["previous_close"]),
                      cells["previous_close"]))
    ELSE IF c = "daily_volatility"
    THEN Times100(Div(Sub(cells["day_high"], cells["day_low"]), cells["current_price"]))
    ELSE IF c = "market_cap_category" THEN categorize_market_cap(cells["market_cap"])
    ELSE categorize_performance(cells["change_percent"])

\* A derived column is written over a column of that name the input already has.
DerivedCell(cols, c, cells) ==
    IF c = "price_momentum" /\ {"current_price", "previous_close"} \subseteq cols
    THEN Times100(Div(Sub(cells["current_price"], cells["previous_close"]),
                      cells["previous_close"]))
    ELSE IF c = "daily_volatility" /\ {"day_high", "day_low"} \subseteq cols
    THEN Times100(Div(Sub(cells["day_high"], cells["day_low"]), cells["current_price"]))
    ELSE IF c = "market_cap_category" /\ "market_cap" \in cols
    THEN categorize_market_cap(cells["market_cap"])
    ELSE IF c = "performance_category" /\ "change_percent" \in cols
    THEN categorize_performance(cells["change_percent"])
    ELSE cells[c]

\* df_derived['current_price'] raises KeyError when the column is missing.
add_derived_metrics(frame) ==
    IF {"day_high", "day_low"} \subseteq frame.cols /\ "current_price" \notin frame.cols
    THEN Raise
    ELSE Return([cols |-> DerivedCols(frame.cols),
                 rows |-> [k \in 1..Len(frame.rows) |->
                              [label |-> frame.rows[k].label,
                               cells |-> [c \in DerivedCols(frame.cols) |->
                                             DerivedCell(frame.cols, c,
                                                         frame.rows[k].cells)]]]])

-----------------------------------------------------------------------------
(* The files a user hands to process_data *)

NoFile == [exists |-> FALSE, cols |-> {}, rows |-> <<>>]
NoFrame == [cols |-> {}, rows |-> <<>>]

CsvFile(cols, rows) == [exists |-> TRUE, cols |-> cols, rows |-> rows]

\* Rows with and without an error text, over two symbols.
ErrorRows ==
    {[c \in {"symbol", "error", "current_price"} |->
         IF c = "symbol" THEN <<sym>> ELSE IF c = "error" THEN err ELSE <<"1", "0">>] :
     sym \in SymbolSet, err \in {<<>>, <<"timeout">>}}

\* Rows whose price columns are present or missing.
PriceRows ==
    {[c \in {"symbol", "current_price", "previous_close", "open"} |->
         IF c = "symbol" THEN <<"AAPL">>
         ELSE IF c = "current_price" THEN cp
         ELSE IF c = "previous_close" THEN pcl
         ELSE IF cp = <<>> THEN <<"7">> ELSE <<>>] :
     cp \in {<<>>, <<"1", "0">>, <<"$", "2", "0">>}, pcl \in {<<>>, <<"1", "1">>}}

\* Rows whose volume and P/E ratio are present or missing.
MedianRows ==
    {[c \in {"symbol", "volume", "pe_ratio"} |->
         IF c = "symbol" THEN <<"MSFT">>
         ELSE IF c = "volume" THEN pair[1] ELSE pair[2]] :
     pair \in {<< <<>>, <<>> >>, << <<"1">>, <<"1">> >>, << <<"2">>, <<"4">> >>,
               << <<>>, <<"4">> >>, << <<"2">>, <<>> >>, << <<"1">>, <<"2">> >>}}

\* A row of a file: the symbol and the texts of the other columns.
FileRow(cols, texts) ==
    [c \in cols \cup {"symbol"} |-> IF c = "symbol" THEN <<"AAPL">> ELSE texts[c]]

\* The files made of one row of a table, of two rows of it, or of all of it.
Picks(cols, table) ==
    {CsvFile(cols \cup {"symbol"}, <<FileRow(cols, table[k])>>) : k \in DOMAIN table}
    \cup {CsvFile(cols \cup {"symbol"},
                  <<FileRow(cols, table[j]), FileRow(cols, table[k])>>) :
             j, k \in DOMAIN table}
    \cup {CsvFile(cols \cup {"symbol"},
                  [k \in DOMAIN table |-> FileRow(cols, table[k])])}

\* Current price and previous close: 110 and 100, a previous close of 0, a
\* missing operand.
MomentumTable ==
    << [current_price |-> <<"1", "1", "0">>, previous_close |-> <<"1", "0", "0">>],
       [current_price |-> <<"1", "0", "0">>, previous_close |-> <<"0">>],
       [current_price |-> <<"0">>, previous_close |-> <<"0">>],
       [current_price |-> <<>>, previous_close |-> <<"1", "0", "0">>],
       [current_price |-> <<"1", "0", "0">>, previous_close |-> <<>>] >>

\* Day range over the current price: a current price of 0, a missing operand.
VolatilityTable ==
    << [current_price |-> <<"1", "0", "0">>, day_high |-> <<"1", "2">>, day_low |-> <<"1", "0">>],
       [current_price |-> <<"0">>, day_high |-> <<"1", "2">>, day_low |-> <<"1", "0">>],
       [current_price |-> <<>>, day_high |-> <<"1", "2">>, day_low |-> <<"1", "0">>],
       [current_price |-> <<"0">>, day_high |-> <<"1", "0">>, day_low |-> <<"1", "0">>],
       [current_price |-> <<"1", "0", "0">>, day_high |-> <<>>, day_low |-> <<"1", "0">>] >>

\* A file with the day range and no current_price column.
RangeTable == << [day_high |-> <<"1", "2">>, day_low |-> <<"1", "0">>] >>

\* Change percentages around the thresholds of categorize_performance.
PerformanceTable ==
    << [change_percent |-> <<"6">>], [change_percent |-> <<"5">>],
       [change_percent |-> <<"2">>], [change_percent |-> <<"0">>],
       [change_percent |-> <<"-", "2">>], [change_percent |-> <<"-", "5">>],
       [change_percent |-> <<"-", "1", "0">>], [change_percent |-> <<>>] >>

\* Market capitalisation texts with the letters T, B, M in several places.
MarketCapTable ==
    << [market_cap |-> <<"2", ".", "5", "T">>], [market_cap |-> <<"3", "B">>],
       [market_cap |-> <<"4", "M">>], [market_cap |-> <<"5", "K">>],
       [market_cap |-> <<"2", ".", "5", "t">>], [market_cap |-> <<"M", "B", "T">>],
       [market_cap |-> <<"B", "1", "M">>], [market_cap |-> <<>>] >>

\* Volume texts: suffixes, separators, texts that do not parse, an infinity.
VolumeTable ==
    << [volume |-> <<"1", ".", "2", "M">>], [volume |-> <<"9", "5", "0", "k">>],
       [volume |-> <<"2", "B">>], [volume |-> <<"1", "2", ",", "3", "4", "5">>],
       [volume |-> <<"1", ",", "2", "0", "0", "K">>],
       [volume |-> <<"x">>], [volume |-> <<"1", ".", "5", "M", "B">>],
       [volume |-> <<"inf", "K">>], [volume |-> <<"7">>], [volume |-> <<"inf">>] >>

\* Volume texts whose only letter is a T at the end.
TrillionTable ==
    << [volume |-> <<"1", ".", "5", "T">>], [volume |-> <<"3", "T">>],
       [volume |-> <<"2", ".", "5", "t">>] >>

\* Earnings per share texts, some of which are no numbers.
EpsTable ==
    << [eps |-> <<"1", ".", "5">>], [eps |-> <<"3">>], [eps |-> <<"x">>],
       [eps |-> <<"1", ".", "2", ".", "3">>] >>

UserFiles ==
    {NoFile, CsvFile({}, <<>>)}
    \cup Picks({"current_price", "previous_close"}, MomentumTable)
    \cup Picks({"current_price", "day_high", "day_low"}, VolatilityTable)
    \cup Picks({"day_high", "day_low"}, RangeTable)
    \cup Picks({"change_percent"}, PerformanceTable)
    \cup Picks({"market_cap"}, MarketCapTable)
    \cup Picks({"volume"}, VolumeTable)
    \cup Picks({"eps"}, EpsTable)
    \cup Picks({"volume"}, TrillionTable)
    \cup {CsvFile({"symbol", "error", "current_price"}, rows) :
             rows \in SeqsUpTo(ErrorRows, MaxRows)}
    \cup {CsvFile({"symbol", "current_price", "previous_close", "open"}, rows) :
             rows \in SeqsUpTo(PriceRows, MaxRows)}
    \cup {CsvFile({"symbol", "volume", "pe_ratio"}, rows) :
             rows \in SeqsUpTo(MedianRows, MaxRows)}

-----------------------------------------------------------------------------
(* scrape_multiple_stocks *)

\* The calls an operation makes are recorded in the order it makes them.
Did(calls) == steps' = steps \o calls

\* How many times a call is in the record.
Count(log, call) == Cardinality({k \in 1..Len(log) : log[k] = call})

Init ==
    /\ pc = "idle"
    /\ symbols = <<>>
    /\ i = 1
    /\ all_stock_data = <<>>
    /\ events = <<>>
    /\ returned = <<>>
    /\ remote = <<>>
    /\ raw_data = None
    /\ input_file = NoFile
    /\ df = NoFrame
    /\ df_clean = NoFrame
    /\ df_std = NoFrame
    /\ df_filled = NoFrame
    /\ result = None
    /\ again = None
    /\ steps = <<>>
    /\ config = "unread"
    /\ is_running = FALSE
    /\ scheduler_thread = 0
    /\ threads = <<>>
    /\ mpc = "new"
    /\ schedule_jobs = 0
    /\ jobs = <<>>
    /\ scrapers = <<>>
    /\ drivers = <<>>

\* main.py run_cli / collect_and_process_data: the call of scrape_multiple_stocks
StartCollect ==
    /\ pc = "idle"
    /\ \E syms \in SeqsUpTo(SymbolSet, MaxSymbols) : symbols' = syms
    /\ pc' = "scrape"
    /\ Did(<<"collect">>)
    /\ UNCHANGED <<sched, config, again, i, all_stock_data, events, returned, remote, raw_data,
                   input_file, df, df_clean, df_std, df_filled, result>>

\* The body of the for loop, given what scrape_stock_data did: an exception
\* is logged and the loop continues; a record is appended when it carries no
\* error, and the pacing sleep follows.
Iteration(r, reply, delay) ==
    /\ returned' = Append(returned, r)
    /\ remote' = Append(remote, reply)
    /\ IF r.exc
       THEN /\ events' = events \o Requests(symbols[i], reply)
            /\ all_stock_data' = all_stock_data
            /\ i' = i + 1
       ELSE /\ events' = events \o Requests(symbols[i], reply)
                                \o pacing(i, Len(symbols), delay)
            /\ all_stock_data' = append_outcome(all_stock_data, r.val)
            /\ i' = loop_next(i, Len(symbols), r.val)

\* One iteration of the for loop of scrape_multiple_stocks.
ScrapeSymbol ==
    /\ pc = "scrape"
    /\ i <= Len(symbols)
    /\ \E reply \in Replies, delay \in Delays :
         Iteration(scrape_stock_data(symbols[i], reply), reply, delay)
    /\ UNCHANGED <<sched, steps, config, again, pc, symbols, raw_data, input_file, df, df_clean, df_std,
                   df_filled, result>>

\* The end of scrape_multiple_stocks: the dataset or None.
ReturnBatch ==
    /\ pc = "scrape"
    /\ i > Len(symbols)
    /\ raw_data' = batch_result(all_stock_data)
    /\ pc' = "collected"
    /\ UNCHANGED <<sched, steps, config, again, symbols, i, all_stock_data, events, returned, remote,
                   input_file, df, df_clean, df_std, df_filled, result>>

\* collect_and_process_data: raw_data.to_csv(raw_filename, index=False), when
\* the collection returned a dataset; the file is then given to process_data.
SaveRaw ==
    /\ pc = "collected"
    /\ raw_data # None
    /\ input_file' = to_csv(raw_data)
    /\ pc' = "process"
    /\ Did(<<"raw_file", "process">>)
    /\ UNCHANGED <<sched, config, again, symbols, i, all_stock_data, events, returned, remote, raw_data,
                   df, df_clean, df_std, df_filled, result>>

\* collect_and_process_data: "Data collection failed", nothing else is done.
CollectionFailed ==
    /\ pc = "collected"
    /\ raw_data = None
    /\ pc' = "done"
    /\ UNCHANGED <<sched, steps, config, again, symbols, i, all_stock_data, events, returned, remote, raw_data,
                   input_file, df, df_clean, df_std, df_filled, result>>

\* main.py process_data_interactive: process_data on a file the user names.
StartProcess ==
    /\ pc = "idle"
    /\ \E file \in UserFiles : input_file' = file
    /\ pc' = "process"
    /\ Did(<<"process">>)
    /\ UNCHANGED <<sched, config, again, symbols, i, all_stock_data, events, returned, remote, raw_data,
                   df, df_clean, df_std, df_filled, result>>

\* Faulty variant: an empty frame is processed like any other.
LoadedAnyway(r) ==
    /\ pc' = IF r.exc THEN "done" ELSE "clean"
    /\ df' = IF r.exc THEN df ELSE r.val
    /\ result' = IF r.exc THEN None ELSE result

\* process_data after pd.read_csv: an exception or an empty frame ends it
\* with None.
Loaded(r) ==
    IF r.exc \/ r.val.rows = <<>>
    THEN /\ pc' = "done"
         /\ df' = IF r.exc THEN df ELSE r.val
         /\ result' = None
    ELSE /\ pc' = "clean"
         /\ df' = r.val
         /\ result' = result

\* process_data: pd.read_csv and the df.empty test.
LoadData ==
    /\ pc = "process"
    /\ Loaded(read_csv(input_file))
    /\ Did(<<"read">>)
    /\ UNCHANGED <<sched, config, again, symbols, i, all_stock_data, events, returned, remote, raw_data,
                   input_file, df_clean, df_std, df_filled>>

\* A stage of process_data: its frame when it returns; when it raises,
\* process_data returns None.
StageEnds(r, next) ==
    /\ pc' = IF r.exc THEN "done" ELSE next
    /\ result' = IF r.exc THEN None ELSE result

StageFrame(r, old) == IF r.exc THEN old ELSE r.val

Cleaned(r) == StageEnds(r, "standardize") /\ df_clean' = StageFrame(r, df_clean)

CleanData ==
    /\ pc = "clean"
    /\ Cleaned(clean_data(df))
    /\ Did(<<"clean">>)
    /\ UNCHANGED <<sched, config, again, symbols, i, all_stock_data, events, returned, remote, raw_data,
                   input_file, df, df_std, df_filled>>

Standardized(r) == StageEnds(r, "fill") /\ df_std' = StageFrame(r, df_std)

StandardizeFormats ==
    /\ pc = "standardize"
    /\ Standardized(standardize_formats(df_clean))
    /\ Did(<<"standardize">>)
    /\ UNCHANGED <<sched, config, again, symbols, i, all_stock_data, events, returned, remote, raw_data,
                   input_file, df, df_clean, df_filled>>

Filled(r) == StageEnds(r, "derive") /\ df_filled' = StageFrame(r, df_filled)

HandleMissingValues ==
    /\ pc = "fill"
    /\ Filled(handle_missing_values(df_std))
    /\ Did(<<"fill">>)
    /\ UNCHANGED <<sched, config, again, symbols, i, all_stock_data, events, returned, remote, raw_data,
                   input_file, df, df_clean, df_std>>

Derived(r) == result' = IF r.exc THEN None ELSE r.val

AddDerivedMetrics ==
    /\ pc = "derive"
    /\ Derived(add_derived_metrics(df_filled))
    /\ pc' = "done"
    /\ Did(<<"derive">>)
    /\ UNCHANGED <<sched, config, again, symbols, i, all_stock_data, events, returned, remote, raw_data,
                   input_file, df, df_clean, df_std, df_filled>>

\* The next stage on the frame of the stage before it, unless that one raised.
ThenStandardize(r) == IF r.exc THEN r ELSE standardize_formats(r.val)
ThenFill(r) == IF r.exc THEN r ELSE handle_missing_values(r.val)
ThenDerive(r) == IF r.exc THEN r ELSE add_derived_metrics(r.val)

\* process_data, lines 40 to 43: the four stages in a row.
Stages(frame) == ThenDerive(ThenFill(ThenStandardize(clean_data(frame))))

Reprocessed(r) == again' = IF r.exc THEN None ELSE r.val

\* The stages of process_data run once more, on the dataset it returned.
ProcessAgain ==
    /\ pc = "done"
    /\ result # None
    /\ Reprocessed(Stages(result))
    /\ pc' = "redone"
    /\ UNCHANGED <<sched, steps, config, symbols, i, all_stock_data, events, returned,
                   remote, raw_data, input_file, df, df_clean, df_std, df_filled,
                   result>>

-----------------------------------------------------------------------------
(* collect_and_process_data after process_data *)

\* The operation is a run of collect_and_process_data.
InJob == Len(steps) > 0 /\ steps[1] = "collect"

\* What scheduler_config.json can hold for email_notifications: true, false,
\* or no such key (load_config returns whatever the file holds).
Configs == {"on", "off", "missing"}

\* self.config['email_notifications'], as read now: the file is read once.
ReadConfig == IF config = "unread" THEN Configs ELSE {config}

\* raw_data.to_csv raises (the file cannot be written).
RawWriteFails ==
    /\ pc = "collected"
    /\ raw_data # None
    /\ pc' = "handler"
    /\ UNCHANGED <<sched, steps, config, again, symbols, i, all_stock_data, events,
                   returned, remote, raw_data, input_file, df, df_clean, df_std,
                   df_filled, result>>

\* After process_data: with a dataset the processed file is written and the
\* analysis and the visualisations run (both catch what they raise); with
\* None, "Data processing failed" is logged and the run ends.
SaveProcessed ==
    /\ pc = "done"
    /\ InJob
    /\ Count(steps, "process") > 0
    /\ IF result # None
       THEN Did(<<"processed_file", "analyze", "visualize">>) /\ pc' = "notify"
       ELSE steps' = steps /\ pc' = "finished"
    /\ UNCHANGED <<sched, config, again, symbols, i, all_stock_data, events, returned,
                   remote, raw_data, input_file, df, df_clean, df_std, df_filled,
                   result>>

\* processed_data.to_csv raises.
ProcessedWriteFails ==
    /\ pc = "done"
    /\ InJob
    /\ result # None
    /\ pc' = "handler"
    /\ UNCHANGED <<sched, steps, config, again, symbols, i, all_stock_data, events,
                   returned, remote, raw_data, input_file, df, df_clean, df_std,
                   df_filled, result>>

\* if self.config['email_notifications']: send_notification, which catches
\* what it raises; a configuration without the key raises KeyError.
Notified(c) ==
    /\ config' = c
    /\ pc' = IF c = "missing" THEN "handler" ELSE "finished"
    /\ steps' = IF c = "on" THEN Append(steps, "notify") ELSE steps

Notify ==
    /\ pc = "notify"
    /\ \E c \in ReadConfig : Notified(c)
    /\ UNCHANGED <<sched, again, symbols, i, all_stock_data, events, returned, remote,
                   raw_data, input_file, df, df_clean, df_std, df_filled, result>>

\* The except clause: the error is logged and, if the configuration says so,
\* send_error_notification is called, which catches what it raises; the read
\* of a configuration without the key raises KeyError out of the handler.
Handled(c) ==
    /\ config' = c
    /\ pc' = IF c = "missing" THEN "escaped" ELSE "finished"
    /\ steps' = IF c = "on" THEN Append(steps, "error_notify") ELSE steps

ExceptHandler ==
    /\ pc = "handler"
    /\ \E c \in ReadConfig : Handled(c)
    /\ UNCHANGED <<sched, again, symbols, i, all_stock_data, events, returned, remote,
                   raw_data, input_file, df, df_clean, df_std, df_filled, result>>

Next ==
    \/ StartCollect \/ ScrapeSymbol \/ ReturnBatch \/ SaveRaw \/ CollectionFailed
    \/ StartProcess \/ LoadData \/ CleanData \/ StandardizeFormats
    \/ HandleMissingValues \/ AddDerivedMetrics \/ ProcessAgain
    \/ RawWriteFails \/ SaveProcessed \/ ProcessedWriteFails
    \/ Notify \/ ExceptHandler

Spec == Init /\ [][Next]_vars

-----------------------------------------------------------------------------
(* StockScraper objects and their WebDrivers *)

\* What webdriver.Chrome(...) and driver.execute_script(...) do in
\* setup_selenium: the constructor raises, the script raises, or both return.
SetupOutcomes == {"no_driver", "script_fails", "ready"}

\* setup_selenium, given the WebDriver objects that exist: those that exist
\* after it, and the one self.driver refers to (0 for None).  The except
\* clause sets self.driver to None and quits nothing.
setup_selenium(ds, outcome) ==
    IF outcome = "no_driver" THEN [drivers |-> ds, driver |-> 0]
    ELSE IF outcome = "script_fails" THEN [drivers |-> Append(ds, "open"), driver |-> 0]
    ELSE [drivers |-> Append(ds, "open"), driver |-> Len(ds) + 1]

\* StockScraper(): a session of its own, and the driver of setup_selenium.
StockScraper(ds, outcome) == [driver |-> setup_selenium(ds, outcome).driver, live |-> TRUE]

\* __del__: the driver the scraper holds is quit.
Del(ds, scraper) ==
    IF scraper.driver # 0 THEN [ds EXCEPT ![scraper.driver] = "quit"] ELSE ds

-----------------------------------------------------------------------------
(* SchedulerManager and the threads of the application *)

\* Faulty variant: start_scheduler does not look at is_running.
NeverRunning(running) == FALSE

\* start_scheduler: if self.is_running: return
AlreadyRunning(running) == running

\* Faulty variant: the job uses the scraper of the application.
AppScraper(n) == 1

\* collect_and_process_data: scraper = StockScraper(), one more than the n
\* scrapers that exist.
JobScraper(n) == n + 1

\* How a run of collect_and_process_data ends: it returns, or an exception
\* leaves its except clause.
JobOutcomes == {"returns", "raises"}

Thread(at, scraper) == [at |-> at, scraper |-> scraper]

LoopThreads == 1..Len(threads)

\* StockScraperApp.__init__: the scraper of the application is 1; the
\* SchedulerManager starts stopped, without thread and without jobs.
NewApp ==
    /\ mpc = "new"
    /\ \E o \in SetupOutcomes :
          /\ scrapers' = <<StockScraper(drivers, o)>>
          /\ drivers' = setup_selenium(drivers, o).drivers
    /\ mpc' = "menu"
    /\ UNCHANGED <<pipeline, is_running, scheduler_thread, threads, schedule_jobs, jobs>>

\* collect_data_interactive: the main thread is inside
\* self.scraper.scrape_multiple_stocks, on the session of scraper 1.
MainCollectBegin ==
    /\ mpc = "menu"
    /\ mpc' = "collect"
    /\ UNCHANGED <<pipeline, is_running, scheduler_thread, threads, schedule_jobs, jobs,
                   scrapers, drivers>>

MainCollectEnd ==
    /\ mpc = "collect"
    /\ mpc' = "menu"
    /\ UNCHANGED <<pipeline, is_running, scheduler_thread, threads, schedule_jobs, jobs,
                   scrapers, drivers>>

\* schedule_*: the jobs go into the registry of the schedule library and a
\* description into self.jobs; no lock is taken.
Scheduled(added, description) ==
    /\ Len(jobs) < MaxJobs
    /\ schedule_jobs' = schedule_jobs + added
    /\ jobs' = Append(jobs, description)
    /\ UNCHANGED <<pipeline, is_running, scheduler_thread, threads, mpc, scrapers, drivers>>

schedule_daily_collection ==
    /\ mpc = "menu"
    /\ Scheduled(1, "daily")

schedule_market_hours_collection ==
    /\ mpc = "menu"
    /\ Scheduled(MarketHoursJobs, "market_hours")

schedule_hourly_collection ==
    /\ mpc = "menu"
    /\ Scheduled(1, "hourly")

\* clear_jobs: schedule.clear() and self.jobs = []; no lock is taken.
clear_jobs ==
    /\ mpc = "menu"
    /\ schedule_jobs' = 0
    /\ jobs' = <<>>
    /\ UNCHANGED <<pipeline, is_running, scheduler_thread, threads, mpc, scrapers, drivers>>

\* The body of start_scheduler.
Started ==
    IF AlreadyRunning(is_running)
    THEN UNCHANGED <<is_running, scheduler_thread, threads>>
    ELSE /\ is_running' = TRUE
         /\ threads' = Append(threads, Thread("check", 0))
         /\ scheduler_thread' = Len(threads) + 1

\* The body of stop_scheduler up to the join: the main thread waits in
\* self.scheduler_thread.join() when there is a thread.
Stopped ==
    /\ is_running' = FALSE
    /\ mpc' = IF scheduler_thread # 0 THEN "join" ELSE "menu"
    /\ UNCHANGED <<scheduler_thread, threads>>

start_scheduler ==
    /\ mpc = "menu"
    /\ AlreadyRunning(is_running) \/ Len(threads) < MaxThreads
    /\ Started
    /\ UNCHANGED <<pipeline, mpc, schedule_jobs, jobs, scrapers, drivers>>

stop_scheduler ==
    /\ mpc = "menu"
    /\ Stopped
    /\ UNCHANGED <<pipeline, schedule_jobs, jobs, scrapers, drivers>>

\* toggle_scheduler: stop when running, start otherwise.
toggle_scheduler ==
    /\ mpc = "menu"
    /\ is_running \/ Len(threads) < MaxThreads
    /\ IF is_running THEN Stopped ELSE Started /\ mpc' = mpc
    /\ UNCHANGED <<pipeline, schedule_jobs, jobs, scrapers, drivers>>

\* self.scheduler_thread.join() returns once the thread has ended.
Join ==
    /\ mpc = "join"
    /\ threads[scheduler_thread].at = "exited"
    /\ mpc' = "menu"
    /\ UNCHANGED <<pipeline, is_running, scheduler_thread, threads, schedule_jobs, jobs,
                   scrapers, drivers>>

\* run_scheduler: while self.is_running
LoopCheck ==
    /\ \E t \in LoopThreads :
          /\ threads[t].at = "check"
          /\ threads' = [threads EXCEPT ![t].at = IF is_running THEN "pending" ELSE "exited"]
    /\ UNCHANGED <<pipeline, is_running, scheduler_thread, mpc, schedule_jobs, jobs,
                   scrapers, drivers>>

\* schedule.run_pending() with no job due: time.sleep(60) follows.
RunPendingIdle ==
    /\ \E t \in LoopThreads :
          /\ threads[t].at = "pending"
          /\ threads' = [threads EXCEPT ![t].at = "sleep"]
    /\ UNCHANGED <<pipeline, is_running, scheduler_thread, mpc, schedule_jobs, jobs,
                   scrapers, drivers>>

\* The scrapers and drivers once the job has the scraper s: a new one is
\* constructed.
JobScrapers(s, o) ==
    /\ scrapers' = IF s > Len(scrapers)
                   THEN Append(scrapers, StockScraper(drivers, o))
                   ELSE scrapers
    /\ drivers' = IF s > Len(scrapers) THEN setup_selenium(drivers, o).drivers ELSE drivers

\* schedule.run_pending() with a job of the registry due: the loop thread
\* enters collect_and_process_data and constructs the scraper of the run.
RunPendingJob ==
    /\ schedule_jobs > 0
    /\ Len(scrapers) < MaxScrapers
    /\ \E t \in LoopThreads, o \in SetupOutcomes :
          /\ threads[t].at = "pending"
          /\ threads' = [threads EXCEPT ![t] = Thread("job", JobScraper(Len(scrapers)))]
          /\ JobScrapers(JobScraper(Len(scrapers)), o)
    /\ UNCHANGED <<pipeline, is_running, scheduler_thread, mpc, schedule_jobs, jobs>>

\* collect_and_process_data ends: its scraper is disposed of; run_pending
\* returns and the loop sleeps, or the exception ends the loop thread.
JobEnd ==
    /\ \E t \in LoopThreads, outcome \in JobOutcomes :
          /\ threads[t].at = "job"
          /\ threads' = [threads EXCEPT ![t] =
                            Thread(IF outcome = "raises" THEN "exited" ELSE "sleep", 0)]
          /\ drivers' = Del(drivers, scrapers[threads[t].scraper])
          /\ scrapers' = [scrapers EXCEPT ![threads[t].scraper].live = FALSE]
    /\ UNCHANGED <<pipeline, is_running, scheduler_thread, mpc, schedule_jobs, jobs>>

\* time.sleep(60) is over.
Wake ==
    /\ \E t \in LoopThreads :
          /\ threads[t].at = "sleep"
          /\ threads' = [threads EXCEPT ![t].at = "check"]
    /\ UNCHANGED <<pipeline, is_running, scheduler_thread, mpc, schedule_jobs, jobs,
                   scrapers, drivers>>

SchedNext ==
    \/ NewApp \/ MainCollectBegin \/ MainCollectEnd
    \/ schedule_daily_collection \/ schedule_market_hours_collection
    \/ schedule_hourly_collection \/ clear_jobs
    \/ start_scheduler \/ stop_scheduler \/ toggle_scheduler \/ Join
    \/ LoopCheck \/ RunPendingIdle \/ RunPendingJob \/ JobEnd \/ Wake

\* The application with its scheduler: the main thread at the menu and the
\* loop threads it starts.
SchedSpec == Init /\ [][SchedNext]_vars

-----------------------------------------------------------------------------
(* Properties *)

\* scrape_stock_data gave back an error record (or raised).
Failed(r) == r.exc \/ "error" \in DOMAIN r.val

\* The page request or the parsing failed for this call.
RequestFailed(reply) == reply.transient > 0 \/ reply.kind = "parse_error"

BatchReturned == pc \notin {"idle", "scrape"} /\ Len(returned) = Len(symbols)

Gets == SelectSeq(events, LAMBDA e : e.op = "get")
Sleeps == SelectSeq(events, LAMBDA e : e.op = "sleep")
Successes == SelectSeq(returned, LAMBDA r : ~Failed(r))

RowSymbols(frame) == [k \in 1..Len(frame.rows) |-> frame.rows[k].cells["symbol"].s[1]]
Labels(frame) == [k \in 1..Len(frame.rows) |-> frame.rows[k].label]

RECURSIVE IsSubseq(_, _)
IsSubseq(a, b) ==
    IF a = <<>> THEN TRUE
    ELSE IF b = <<>> THEN FALSE
    ELSE IF a[1] = b[1] THEN IsSubseq(Tail(a), Tail(b))
    ELSE IsSubseq(a, Tail(b))

\* C1: scrape_multiple_stocks returns None exactly when no symbol of the batch
\* produced an error-free record, and a dataset it returns has at least one row.
C1_NoneIffNoSuccess ==
    BatchReturned =>
        /\ (raw_data = None) <=> (\A k \in 1..Len(returned) : Failed(returned[k]))
        /\ raw_data # None => Len(raw_data.rows) > 0

C1_Witness ==
    /\ pc = "collected"
    /\ Len(symbols) >= 2
    /\ raw_data = None

\* C2: every symbol is requested exactly once, in input order, whatever failed
\* before it: during the loop the requests made are those for the first i - 1
\* symbols, the index never passes the end, and at the return all were made.
C2_EverySymbolOnceInOrder ==
    /\ Len(Gets) <= Len(symbols)
    /\ \A k \in 1..Len(Gets) : Gets[k].symbol = symbols[k]
    /\ pc = "scrape" => i <= Len(symbols) + 1 /\ Len(Gets) = i - 1
    /\ BatchReturned => Len(Gets) = Len(symbols)

C2_Witness ==
    /\ pc = "collected"
    /\ Len(symbols) >= 2
    /\ Failed(returned[1])
    /\ ~Failed(returned[2])
    /\ Len(Gets) = Len(symbols)

\* C3 as stated: the dataset has one record per attempted symbol, a failed
\* symbol being present as a record tagged with an error.
C3_OneRecordPerAttemptedSymbol ==
    (BatchReturned /\ raw_data # None) =>
        /\ Len(raw_data.rows) = Len(symbols)
        /\ \A k \in 1..Len(raw_data.rows) :
              /\ RowSymbols(raw_data)[k] = symbols[k]
              /\ Failed(returned[k]) =>
                    /\ "error" \in raw_data.cols
                    /\ ~isna(raw_data.rows[k].cells["error"])

\* C3 amended: the dataset has one record per symbol whose fetch succeeded, in
\* order; a symbol whose fetch failed is omitted and no record carries an error.
C3_OneRecordPerSucceededSymbol ==
    (BatchReturned /\ raw_data # None) =>
        /\ Len(raw_data.rows) = Len(Successes)
        /\ \A k \in 1..Len(raw_data.rows) :
              raw_data.rows[k].cells["symbol"] = Successes[k].val["symbol"]
        /\ "error" \notin raw_data.cols

C3_Witness ==
    /\ pc = "collected"
    /\ raw_data # None
    /\ Len(symbols) >= 2
    /\ Failed(returned[1])
    /\ Len(raw_data.rows) = Len(symbols) - 1

\* A frame of the pipeline keeps the rows of the loaded frame in their order:
\* the row labels increase and each row has the symbol of the loaded row of
\* that label.
OrderKept(frame) ==
    /\ \A j, k \in 1..Len(frame.rows) : j < k => frame.rows[j].label < frame.rows[k].label
    /\ \A k \in 1..Len(frame.rows) :
          /\ frame.rows[k].label + 1 \in 1..Len(df.rows)
          /\ frame.rows[k].cells["symbol"] = df.rows[frame.rows[k].label + 1].cells["symbol"]

\* C4: the rows of the dataset scrape_multiple_stocks returns, and the rows
\* left after each stage of process_data, are in the relative order of their
\* symbols in the input sequence.
C4_RowOrderIsInputOrder ==
    /\ (BatchReturned /\ raw_data # None) => IsSubseq(RowSymbols(raw_data), symbols)
    /\ OrderKept(df_clean) /\ OrderKept(df_std) /\ OrderKept(df_filled)
    /\ result # None => OrderKept(result)
    /\ (BatchReturned /\ raw_data # None /\ result # None) =>
          IsSubseq(RowSymbols(result), symbols)

C4_Witness ==
    /\ pc = "done"
    /\ Len(symbols) >= 2
    /\ result # None
    /\ Len(result.rows) = 2
    /\ RowSymbols(result)[1] # RowSymbols(result)[2]

\* C5: scrape_stock_data never raises; the record it returns carries the
\* symbol, and an error field that is set whenever the request or the parsing
\* failed.
C5_FetcherNeverRaises ==
    \A k \in 1..Len(returned) :
        /\ ~returned[k].exc
        /\ "symbol" \in DOMAIN returned[k].val
        /\ returned[k].val["symbol"] = Str(<<symbols[k]>>)
        /\ RequestFailed(remote[k]) =>
              /\ "error" \in DOMAIN returned[k].val
              /\ ~isna(returned[k].val["error"])

C5_Witness ==
    /\ pc = "collected"
    /\ \E j, k \in 1..Len(remote) :
          /\ remote[j].transient > 0
          /\ remote[k].kind = "parse_error"

\* C6: a fetch that fails fewer times than the attempt cap before the remote
\* side serves the page yields a successful record.
C6_RetriesTransientFailures ==
    \A k \in 1..Len(returned) :
        (remote[k].transient < RETRY_ATTEMPTS /\ remote[k].kind = "page")
            => ~Failed(returned[k])

\* C7: the events of a batch of n symbols are request, sleep, request, ...,
\* request: one sleep of 2 to 5 after the attempt on each symbol but the last,
\* none after the last and none anywhere else.
C7_PacingBetweenSymbols ==
    /\ \A k \in 1..Len(events) :
          IF k % 2 = 1 THEN events[k].op = "get"
          ELSE /\ events[k].op = "sleep"
               /\ events[k].d >= DelayMin
               /\ events[k].d <= DelayMax
    /\ (pc = "scrape" /\ Len(symbols) >= 1) =>
          Len(Sleeps) = IF i - 1 < Len(symbols) THEN i - 1 ELSE Len(symbols) - 1
    /\ (BatchReturned /\ Len(symbols) >= 1) => Len(Sleeps) = Len(symbols) - 1
    /\ Len(symbols) = 0 => Len(Sleeps) = 0

C7_Witness ==
    /\ pc = "collected"
    /\ Len(symbols) >= 2
    /\ Failed(returned[1])
    /\ ~Failed(returned[2])
    /\ Len(Sleeps) = Len(symbols) - 1

ErrorSet(row) == "error" \in DOMAIN row.cells /\ ~isna(row.cells["error"])

\* C8 as stated: the symbol of every input row whose error is set is absent
\* from the dataset clean_data returns, and from the output of process_data.
C8_ErrorSymbolAbsent ==
    df_clean # NoFrame =>
        \A k \in 1..Len(df.rows) :
            ErrorSet(df.rows[k]) =>
                /\ \A j \in 1..Len(df_clean.rows) :
                      df_clean.rows[j].cells["symbol"] # df.rows[k].cells["symbol"]
                /\ result # None =>
                      \A j \in 1..Len(result.rows) :
                          result.rows[j].cells["symbol"] # df.rows[k].cells["symbol"]

\* C8 amended: the rows clean_data returns are exactly the input rows whose
\* error is null, in order, so every row whose error is set is absent, also
\* from the output of process_data; its symbol stays only through another row.
C8_ErrorRowsDropped ==
    df_clean # NoFrame =>
        /\ Labels(df_clean) =
              Labels([cols |-> df.cols,
                      rows |-> SelectSeq(df.rows, LAMBDA r : ~ErrorSet(r))])
        /\ \A j \in 1..Len(df_clean.rows) : ~ErrorSet(df_clean.rows[j])
        /\ result # None =>
              /\ Labels(result) = Labels(df_clean)
              /\ \A j \in 1..Len(result.rows) : ~ErrorSet(result.rows[j])

C8_Witness ==
    /\ pc = "done"
    /\ result # None
    /\ Len(df.rows) >= 3
    /\ ErrorSet(df.rows[1])
    /\ ~ErrorSet(df.rows[2])
    /\ ErrorSet(df.rows[3])
    /\ df.rows[1].cells["symbol"] # df.rows[2].cells["symbol"]

PriceColumns == {"current_price", "previous_close", "open"}

\* The value a forward fill leaves in row k: the row's own value, else the
\* value of the nearest row before it that has one, else null.
NearestBefore(col, k) ==
    IF ~isna(col[k]) THEN col[k]
    ELSE IF \A j \in 1..(k - 1) : isna(col[j]) THEN Null
    ELSE col[CHOOSE j \in 1..(k - 1) :
                 /\ ~isna(col[j])
                 /\ \A m \in (j + 1)..(k - 1) : isna(col[m])]

\* C9: after handle_missing_values each price column is the forward fill of
\* the column it was given.
C9_ForwardFill ==
    df_filled # NoFrame =>
        /\ Len(df_filled.rows) = Len(df_std.rows)
        /\ \A c \in PriceColumns \cap df_std.cols :
              \A k \in 1..Len(df_std.rows) :
                  df_filled.rows[k].cells[c] = NearestBefore(Column(df_std.rows, c), k)

C9_Witness ==
    /\ df_filled # NoFrame
    /\ "current_price" \in df_std.cols
    /\ Column(df_std.rows, "current_price") = <<Num(10), Null, Null, Num(20)>>
    /\ Column(df_filled.rows, "current_price") = <<Num(10), Num(10), Num(10), Num(20)>>
    /\ isna(df_std.rows[1].cells["previous_close"])
    /\ isna(df_filled.rows[1].cells["previous_close"])

MedianColumns(frame) ==
    numeric_cols(frame) \ (PriceColumns \cup {"change", "change_percent"})

\* C10: once handle_missing_values was called, every other numeric column has
\* its nulls replaced by the median of the column and its values unchanged.
C10_MedianImputation ==
    (df_std # NoFrame /\ pc \in {"derive", "done"}) =>
        /\ df_filled # NoFrame
        /\ \A c \in MedianColumns(df_std) :
              \A k \in 1..Len(df_std.rows) :
                  df_filled.rows[k].cells[c] =
                      IF isna(df_std.rows[k].cells[c])
                      THEN median(Column(df_std.rows, c))
                      ELSE df_std.rows[k].cells[c]

-----------------------------------------------------------------------------
(* Properties of the processing stages *)

ProcessEnded == pc \in {"done", "redone"}

\* C11: in every dataset process_data returns, and in what the stages make of
\* it again, each volume is a whole number or null, the volumes written by the
\* median imputation included.
C11_VolumeIntegerOrNull ==
    /\ (result # None /\ "volume" \in result.cols) =>
          \A k \in 1..Len(result.rows) : IsIntegral(result.rows[k].cells["volume"])
    /\ (again # None /\ "volume" \in again.cols) =>
          \A k \in 1..Len(again.rows) : IsIntegral(again.rows[k].cells["volume"])

C11_Witness ==
    /\ result # None
    /\ "volume" \in result.cols
    /\ \E j, k \in 1..Len(result.rows) :
          /\ isna(df_std.rows[k].cells["volume"])
          /\ df_std.rows[j].cells["volume"] = Num(2)
          /\ result.rows[k].cells["volume"] = Num(2)

\* The ratio of C12 and C13: null when an operand is null or the divisor is 0.
GuardedPercent(a, b, divisor) ==
    IF isna(a) \/ isna(b) \/ isna(divisor) THEN Null
    ELSE IF IsNumber(divisor) /\ divisor.n = 0 THEN Null
    ELSE Times100(Div(Sub(a, b), divisor))

\* C12: price_momentum of every output row is (current_price - previous_close)
\* / previous_close * 100 when both are non-null and previous_close is not 0,
\* and null otherwise.
C12_MomentumGuard ==
    (result # None /\ "price_momentum" \in result.cols) =>
        \A k \in 1..Len(result.rows) :
            result.rows[k].cells["price_momentum"] =
                GuardedPercent(df_filled.rows[k].cells["current_price"],
                               df_filled.rows[k].cells["previous_close"],
                               df_filled.rows[k].cells["previous_close"])

\* C13: once add_derived_metrics was called on a frame with day_high and
\* day_low, it returned, and daily_volatility of every row is (day_high -
\* day_low) / current_price * 100 when the three are non-null and current_price
\* is not 0, and null otherwise.
C13_VolatilityGuard ==
    (ProcessEnded /\ df_filled # NoFrame /\ {"day_high", "day_low"} \subseteq df_filled.cols) =>
        /\ result # None
        /\ \A k \in 1..Len(result.rows) :
              result.rows[k].cells["daily_volatility"] =
                  GuardedPercent(df_filled.rows[k].cells["day_high"],
                                 df_filled.rows[k].cells["day_low"],
                                 df_filled.rows[k].cells["current_price"])

\* The tier of a change percentage, by the interval it lies in.
TierOf(x) ==
    IF Less(Num(5), x) THEN "Strong Positive"
    ELSE IF Less(Num(2), x) /\ ~Less(Num(5), x) THEN "Positive"
    ELSE IF Less(Num(0 - 2), x) /\ ~Less(Num(2), x) THEN "Neutral"
    ELSE IF Less(Num(0 - 5), x) /\ ~Less(Num(0 - 2), x) THEN "Negative"
    ELSE "Strong Negative"

\* C14: categorize_performance gives Unknown for null and otherwise the tier
\* of the strict thresholds 5, 2, -2, -5; the values 5, 2, -2 and -5 are
\* Positive, Neutral, Negative and Strong Negative.
C14_PerformanceTiers ==
    /\ categorize_performance(Null) = Str(<<"Unknown">>)
    /\ categorize_performance(Num(5)) = Str(<<"Positive">>)
    /\ categorize_performance(Num(2)) = Str(<<"Neutral">>)
    /\ categorize_performance(Num(0 - 2)) = Str(<<"Negative">>)
    /\ categorize_performance(Num(0 - 5)) = Str(<<"Strong Negative">>)
    /\ (result # None /\ "performance_category" \in result.cols) =>
          \A k \in 1..Len(result.rows) :
              result.rows[k].cells["performance_category"] =
                  Str(<<TierOf(df_filled.rows[k].cells["change_percent"])>>)

C14_Witness ==
    /\ result # None
    /\ "performance_category" \in result.cols
    /\ Column(df_filled.rows, "change_percent") =
          <<Num(6), Num(5), Num(2), Num(0), Num(0 - 2), Num(0 - 5), Num(0 - 10), Num(0)>>
    /\ Column(result.rows, "performance_category") =
          <<Str(<<"Strong Positive">>), Str(<<"Positive">>), Str(<<"Neutral">>),
            Str(<<"Neutral">>), Str(<<"Negative">>), Str(<<"Strong Negative">>),
            Str(<<"Strong Negative">>), Str(<<"Neutral">>)>>

\* The tier of a market capitalisation text, by the letters it contains.
CapTierOf(x) ==
    IF isna(x) THEN "Unknown"
    ELSE IF \E k \in 1..Len(x.s) : x.s[k] = "T" THEN "Mega Cap"
    ELSE IF \E k \in 1..Len(x.s) : x.s[k] = "B" THEN "Large Cap"
    ELSE IF \E k \in 1..Len(x.s) : x.s[k] = "M" THEN "Mid Cap"
    ELSE "Small Cap"

\* C15: categorize_market_cap gives Unknown for null, and for a text the tier
\* of the first of the letters T, B, M (in that order, upper case only) that
\* the text contains anywhere, Small Cap when it contains none.
C15_MarketCapContainment ==
    /\ categorize_market_cap(Null) = Str(<<"Unknown">>)
    /\ categorize_market_cap(Str(<<"B", "1", "M">>)) = Str(<<"Large Cap">>)
    /\ categorize_market_cap(Str(<<"T", "1", "M">>)) = Str(<<"Mega Cap">>)
    /\ (result # None /\ "market_cap_category" \in result.cols) =>
          \A k \in 1..Len(result.rows) :
              result.rows[k].cells["market_cap_category"] =
                  Str(<<CapTierOf(df_filled.rows[k].cells["market_cap"])>>)

C15_Witness ==
    /\ result # None
    /\ "market_cap_category" \in result.cols
    /\ Len(result.rows) = Len(MarketCapTable)
    /\ Column(result.rows, "market_cap_category") =
          <<Str(<<"Mega Cap">>), Str(<<"Large Cap">>), Str(<<"Mid Cap">>),
            Str(<<"Small Cap">>), Str(<<"Small Cap">>), Str(<<"Mega Cap">>),
            Str(<<"Large Cap">>), Str(<<"Unknown">>)>>

MarketCapCategories ==
    {Str(<<"Mega Cap">>), Str(<<"Large Cap">>), Str(<<"Mid Cap">>),
     Str(<<"Small Cap">>), Str(<<"Unknown">>)}

PerformanceCategories ==
    {Str(<<"Strong Positive">>), Str(<<"Positive">>), Str(<<"Neutral">>),
     Str(<<"Negative">>), Str(<<"Strong Negative">>), Str(<<"Unknown">>)}

CategoriesEnumerated(frame) ==
    \A k \in 1..Len(frame.rows) :
        /\ "market_cap_category" \in frame.cols =>
              frame.rows[k].cells["market_cap_category"] \in MarketCapCategories
        /\ "performance_category" \in frame.cols =>
              frame.rows[k].cells["performance_category"] \in PerformanceCategories

\* C16: in every dataset process_data returns, and in what the stages make of
\* it again, market_cap_category and performance_category of every row are
\* members of their enumerated sets.
C16_CategoriesEnumerated ==
    /\ result # None => CategoriesEnumerated(result)
    /\ again # None => CategoriesEnumerated(again)

C16_Witness ==
    /\ pc = "done"
    /\ result # None
    /\ {"market_cap_category", "performance_category"} \subseteq result.cols
    /\ \E j, k \in 1..Len(result.rows) :
          /\ result.rows[j].cells["market_cap_category"] = Str(<<"Mega Cap">>)
          /\ result.rows[j].cells["performance_category"] = Str(<<"Strong Negative">>)
          /\ result.rows[k].cells["market_cap_category"] = Str(<<"Unknown">>)

DerivedColumns ==
    {"price_momentum", "daily_volatility", "market_cap_category", "performance_category"}

\* C17: the four stages run on a dataset process_data returned give a dataset
\* with the same rows, in which price_momentum, daily_volatility,
\* market_cap_category and performance_category of every row are unchanged.
C17_Idempotent ==
    pc = "redone" =>
        /\ again # None
        /\ Labels(again) = Labels(result)
        /\ \A c \in DerivedColumns \cap result.cols :
              /\ c \in again.cols
              /\ \A k \in 1..Len(result.rows) :
                    again.rows[k].cells[c] = result.rows[k].cells[c]

C17_Witness ==
    /\ pc = "redone"
    /\ again # None
    /\ "price_momentum" \in result.cols
    /\ \E j, k \in 1..Len(result.rows) :
          /\ isna(result.rows[j].cells["price_momentum"])
          /\ isna(again.rows[j].cells["price_momentum"])
          /\ IsNumber(result.rows[k].cells["price_momentum"])

\* clean_data was called on the loaded frame and has ended.
CleanEnded == df.rows # <<>> /\ pc \notin {"idle", "scrape", "collected", "process", "clean"}

\* Volume texts and what C18 says clean_volume_value makes of them.
VolumeExamples ==
    { <<Str(<<"1", ".", "2", "M">>), Num(1200000)>>,
      <<Str(<<"9", "5", "0", "k">>), Num(950000)>>,
      <<Str(<<"2", "B">>), Num(2000000000)>>,
      <<Str(<<"1", ",", "2", "0", "0", "K">>), Num(1200000)>>,
      <<Str(<<"1", "2", ",", "3", "4", "5">>), Num(12345)>>,
      <<Str(<<"7">>), Num(7)>>,
      <<Str(<<"1", ".", "5", "M", "B">>), Null>>,
      <<Str(<<"x">>), Null>>,
      <<Str(<<"inf", "K">>), Null>> }

\* C18: for every volume text of a loaded file, clean_volume_value returned
\* the number times the multiplier of the first suffix among K, M, B the text
\* contains, the integer of the digits of a text with no suffix, and null for
\* a text that does not parse.
C18_VolumeSuffixes ==
    (CleanEnded /\ "volume" \in df.cols) =>
        \A k \in 1..Len(df.rows), e \in VolumeExamples :
            df.rows[k].cells["volume"] = e[1] =>
                /\ df_clean # NoFrame
                /\ df_clean.rows[k].cells["volume"] = e[2]

\* The fields scrape_yahoo_finance sets for the elements and the table labels
\* that a page has.
ElementFields(page) ==
    (IF page.price.present THEN {"current_price"} ELSE {})
    \cup (IF page.change.present THEN {"change"} ELSE {})
    \cup (IF page.change_percent.present THEN {"change_percent"} ELSE {})
    \cup (IF page.name.present THEN {"company_name"} ELSE {})

LabelFields(page) ==
    {f \in {"previous_close", "open", "volume", "market_cap", "pe_ratio"} :
        \E k \in 1..Len(page.rows) :
            \/ f = "previous_close" /\ "Previous Close" \in page.rows[k].key
            \/ f = "open" /\ "Open" \in page.rows[k].key
            \/ f = "volume" /\ "Volume" \in page.rows[k].key
            \/ f = "market_cap" /\ "Market Cap" \in page.rows[k].key
            \/ f = "pe_ratio" /\ "P/E Ratio" \in page.rows[k].key}

Served(reply) == reply.transient = 0 /\ reply.kind = "page"

\* C19: when the page of a symbol is served, whatever elements it has, the
\* record has no error field, has exactly the fields of the elements and
\* labels that are on the page, and is counted as a success by
\* scrape_multiple_stocks.
C19_MissingElementNoError ==
    /\ \A k \in 1..Len(returned) :
          Served(remote[k]) =>
              /\ ~returned[k].exc
              /\ "error" \notin DOMAIN returned[k].val
              /\ DOMAIN returned[k].val =
                    {"symbol", "source", "timestamp"}
                    \cup ElementFields(remote[k].page) \cup LabelFields(remote[k].page)
    /\ Len(all_stock_data) = Cardinality({k \in 1..Len(returned) : Served(remote[k])})
    /\ (BatchReturned /\ raw_data # None) => Len(raw_data.rows) = Len(all_stock_data)

C19_Witness ==
    /\ pc = "collected"
    /\ Len(symbols) >= 2
    /\ remote[1] = [transient |-> 0, kind |-> "page", page |-> PageEmpty]
    /\ remote[2] = [transient |-> 0, kind |-> "page", page |-> PageBare]
    /\ DOMAIN returned[1].val = {"symbol", "source", "timestamp"}
    /\ raw_data # None
    /\ Len(raw_data.rows) = 2

\* A cell read from a file that is no finite number: an infinity, or a text
\* that is not the text of a number.
BadToken(cell) ==
    \/ cell.t = "inf"
    \/ cell \in {Str(<<"x">>), Str(<<"1", ".", "2", ".", "3">>)}

\* C20: when a volume or eps field of the loaded file is no finite number,
\* clean_data returns, keeps every row and has null in that field, the fields
\* that are numbers are kept, and process_data returns a dataset of all rows.
C20_BadTokenNullsField ==
    \A c \in {"volume", "eps"} :
        (ProcessEnded /\ df.rows # <<>> /\ c \in df.cols
            /\ \E k \in 1..Len(df.rows) : BadToken(df.rows[k].cells[c])) =>
            /\ df_clean # NoFrame
            /\ Labels(df_clean) = Labels(df)
            /\ \A k \in 1..Len(df.rows) :
                  /\ BadToken(df.rows[k].cells[c]) => isna(df_clean.rows[k].cells[c])
                  /\ IsNumber(df.rows[k].cells[c]) =>
                        df_clean.rows[k].cells[c] = df.rows[k].cells[c]
            /\ result # None
            /\ Labels(result) = Labels(df)

-----------------------------------------------------------------------------
(* Properties of a batch and of process_data as a whole *)

\* C22: the dataset scrape_multiple_stocks returns has at most one record
\* per symbol, also when the input lists a symbol more than once.
C22_SymbolUnique ==
    (BatchReturned /\ raw_data # None) =>
        \A j, k \in 1..Len(raw_data.rows) :
            j # k => raw_data.rows[j].cells["symbol"] # raw_data.rows[k].cells["symbol"]

\* The file of process_data is missing, cannot be read as a table, or has no
\* data row.
LoadFailed == ~input_file.exists \/ input_file.cols = {} \/ input_file.rows = <<>>

StageCalls == {"clean", "standardize", "fill", "derive"}

\* C23: on a file that is missing, unreadable or without data rows,
\* process_data returns None after one read attempt and has run none of its
\* stages.
C23_LoadFailureReturnsNone ==
    (LoadFailed /\ Count(steps, "read") > 0) =>
        /\ pc \notin {"clean", "standardize", "fill", "derive", "redone"}
        /\ result = None
        /\ Count(steps, "read") = 1
        /\ \A k \in 1..Len(steps) : steps[k] \notin StageCalls
        /\ df_clean = NoFrame /\ df_std = NoFrame /\ df_filled = NoFrame
        /\ again = None

C23_Witness ==
    /\ pc = "done"
    /\ input_file.exists
    /\ input_file.cols # {}
    /\ input_file.rows = <<>>
    /\ steps = <<"process", "read">>
    /\ result = None

\* C25: a dataset process_data returns for an input with a change_percent
\* column has a performance_category in every row, and never 'Unknown'.
C25_NoUnknownPerformance ==
    (ProcessEnded /\ result # None /\ "change_percent" \in df.cols) =>
        /\ "performance_category" \in result.cols
        /\ \A k \in 1..Len(result.rows) :
              result.rows[k].cells["performance_category"] # Str(<<"Unknown">>)

C25_Witness ==
    /\ result # None
    /\ "change_percent" \in df.cols
    /\ \E k \in 1..Len(result.rows) :
          /\ isna(df.rows[k].cells["change_percent"])
          /\ result.rows[k].cells["change_percent"] = Num(0)
          /\ result.rows[k].cells["performance_category"] = Str(<<"Neutral">>)

\* C26: process_data never returns a dataset of zero rows.
C26_NeverZeroRows == result # None => result.rows # <<>>

\* Volume texts whose only letter is a T at the end, and the integer part of
\* the number before it.
TrillionExamples ==
    { <<Str(<<"1", ".", "5", "T">>), Num(1)>>,
      <<Str(<<"3", "T">>), Num(3)>>,
      <<Str(<<"2", ".", "5", "t">>), Num(2)>> }

\* C27: clean_volume_value makes of a volume text whose only letter is a T
\* suffix the integer part of its number: no multiplier, and not null.
C27_TrillionSuffixIgnored ==
    (CleanEnded /\ "volume" \in df.cols) =>
        \A k \in 1..Len(df.rows), e \in TrillionExamples :
            df.rows[k].cells["volume"] = e[1] =>
                /\ df_clean # NoFrame
                /\ df_clean.rows[k].cells["volume"] = e[2]

C27_Witness ==
    /\ pc = "done"
    /\ "volume" \in df.cols
    /\ \E k \in 1..Len(df.rows) :
          /\ df.rows[k].cells["volume"] = Str(<<"1", ".", "5", "T">>)
          /\ df_clean.rows[k].cells["volume"] = Num(1)
          /\ result # None
          /\ result.rows[k].cells["volume"] = Num(1)

\* The call b is recorded only after the call a.
After(a, b) ==
    \A k \in 1..Len(steps) : steps[k] = b => \E j \in 1..(k - 1) : steps[j] = a

\* The order of the steps of a job run.
JobStepOrder ==
    InJob =>
        /\ Count(steps, "raw_file") > 0 => (BatchReturned /\ raw_data # None)
        /\ After("raw_file", "process")
        /\ Count(steps, "processed_file") > 0 => result # None
        /\ After("derive", "processed_file")
        /\ After("processed_file", "analyze")
        /\ After("analyze", "notify")
        /\ Count(steps, "notify") > 0 => config = "on"
        /\ (BatchReturned /\ raw_data = None) => steps = <<"collect">>

\* C30: in a run of collect_and_process_data the raw file is written and
\* processing starts only after collection returned a dataset; the processed
\* file is written and analysis starts only after processing returned one;
\* the success notification comes after analysis and only when enabled;
\* after a collection that returned None nothing is written, processed,
\* analysed or notified; and no exception escapes the run.
C30_JobStepsInOrderNoEscape == JobStepOrder /\ pc # "escaped"

-----------------------------------------------------------------------------
(* Properties of the scrapers, the scheduler and its threads *)

\* A live scraper refers to the driver.
Held(d) == \E k \in 1..Len(scrapers) : scrapers[k].live /\ scrapers[k].driver = d

\* C21: every WebDriver a StockScraper created is quit once no scraper holds
\* it: when setup_selenium failed after creating it, and when the scraper that
\* held it was disposed of.
C21_EveryDriverQuit ==
    \A d \in 1..Len(drivers) : drivers[d] = "open" => Held(d)

\* The threads inside a request on the session of scraper k: the main thread
\* (0) while it collects with the scraper of the application, a loop thread
\* while it runs a job with the scraper of that job.
Users(k) ==
    (IF mpc = "collect" /\ k = 1 THEN {0} ELSE {})
    \cup {t \in LoopThreads : threads[t].at = "job" /\ threads[t].scraper = k}

\* C24: no session is used by two threads at once.
C24_SessionSingleOwner ==
    \A k \in 1..Len(scrapers) : Cardinality(Users(k)) <= 1

C24_Witness ==
    /\ mpc = "collect"
    /\ \E t \in LoopThreads :
          /\ threads[t].at = "job"
          /\ threads[t].scraper > 1
          /\ Users(threads[t].scraper) = {t}
    /\ Users(1) = {0}

Alive == {t \in LoopThreads : threads[t].at # "exited"}

\* At most one loop thread is alive, and once stop_scheduler has returned
\* none is.
OneLoopThread ==
    /\ Cardinality(Alive) <= 1
    /\ (~is_running /\ mpc # "join") => Alive = {}

\* A call made while is_running is set creates no thread.
NoThreadWhileRunning == is_running => Len(threads') = Len(threads)

\* C28: at most one scheduler loop thread is alive at any time; a start
\* while is_running creates no thread; stop_scheduler returns only after the
\* loop thread has exited.
C28_OneLoopThread == []OneLoopThread /\ [][NoThreadWhileRunning]_vars

C28_Witness ==
    /\ Len(threads) = 2
    /\ threads[1].at = "exited"
    /\ threads[2].at = "job"
    /\ is_running
    /\ scheduler_thread = 2
    /\ mpc = "menu"

\* A loop thread is inside schedule.run_pending().
InRunPending == \E t \in LoopThreads : threads[t].at \in {"pending", "job"}

\* C29: while the loop thread runs run_pending, no call on the controlling
\* thread adds to the registry or clears it.
C29_RegistryOneThreadAtATime ==
    [][InRunPending => (schedule_jobs' = schedule_jobs /\ jobs' = jobs)]_vars

====
